---- MODULE Spec2Model ----
(***************************************************************************)
(* Model of PasswordVaultManager ("Secure Password Generator/Generated      *)
(* Passwords.py"): the password generator (generate_passwords), the         *)
(* analyzer (_analyze_password) and the vault store (_save_password).       *)
(*                                                                          *)
(* Text values (str) are sequences of one-character strings.  Python        *)
(* floats are IEEE-754 binary64 values, modelled bit-exactly for the        *)
(* operations the program performs (literal, int -> float, int / int,       *)
(* float * float, float ** 2, float > float, int(float)).                   *)
(***************************************************************************)
EXTENDS Integers, Sequences, FiniteSets, TLC

----------------------------------------------------------------------------
(* Python float (binary64).  A float is [sign, m, e]: m is the 53-bit       *)
(* significand, most significant bit first (<<>> for zero), and the value   *)
(* is sign * m * 2^e.  Every value the program computes is far from the     *)
(* subnormal and overflow ranges, which are not modelled.                   *)

Precision == 53

(* the significands are multiplied and divided in limbs of LimbBits bits,   *)
(* small enough for a column of limb products to fit a 32-bit integer       *)
LimbBits == 14

LimbBase == 2 ^ LimbBits

RECURSIVE BitsToInt(_)
BitsToInt(bits) ==
  IF bits = <<>> THEN 0
  ELSE 2 * BitsToInt(SubSeq(bits, 1, Len(bits) - 1)) + bits[Len(bits)]

RECURSIVE IntToBits(_, _)
IntToBits(n, width) ==
  IF width = 0 THEN <<>>
  ELSE Append(IntToBits(n \div 2, width - 1), n % 2)

RECURSIVE BitLength(_)
BitLength(n) == IF n = 0 THEN 0 ELSE 1 + BitLength(n \div 2)

Zeros(k) == [j \in 1..k |-> 0]

(* drop the leading zero bits *)
StripZeros(bits) ==
  IF \A j \in 1..Len(bits) : bits[j] = 0 THEN <<>>
  ELSE LET first == CHOOSE j \in 1..Len(bits) :
                      bits[j] = 1 /\ \A k \in 1..(j - 1) : bits[k] = 0
       IN SubSeq(bits, first, Len(bits))

(* bits + 1, for bits that are not all ones *)
Increment(bits) ==
  LET last == CHOOSE j \in 1..Len(bits) :
                bits[j] = 0 /\ \A k \in (j + 1)..Len(bits) : bits[k] = 1
  IN [j \in 1..Len(bits) |-> IF j < last THEN bits[j] ELSE IF j = last THEN 1 ELSE 0]

FZero == [sign |-> 1, m |-> <<>>, e |-> 0]

(* Round the exact value sign * bits * 2^e (plus a non-zero remainder below *)
(* the last bit when sticky) to the nearest binary64, ties to even.         *)
RoundNearestEven(sign, bits, e, sticky) ==
  LET b == StripZeros(bits)
      n == Len(b)
  IN IF n = 0 THEN FZero
     ELSE IF n <= Precision
     THEN [sign |-> sign, m |-> b \o Zeros(Precision - n), e |-> e - (Precision - n)]
     ELSE LET head  == SubSeq(b, 1, Precision)
              rb    == b[Precision + 1]
              st    == sticky \/ (\E j \in (Precision + 2)..n : b[j] = 1)
              up    == rb = 1 /\ (st \/ head[Precision] = 1)
              carry == up /\ (\A j \in 1..Precision : head[j] = 1)
          IN [sign |-> sign,
              m    |-> IF ~up THEN head
                       ELSE IF carry THEN <<1>> \o Zeros(Precision - 1)
                       ELSE Increment(head),
              e    |-> e + (n - Precision) + (IF carry THEN 1 ELSE 0)]

(* float(n) for an int n *)
FromInt(n) ==
  LET a == IF n < 0 THEN 0 - n ELSE n
  IN RoundNearestEven(IF n < 0 THEN -1 ELSE 1, IntToBits(a, BitLength(a)), 0, FALSE)

(* the first k limbs of the binary expansion of r / b (0 <= r < b), one limb  *)
(* of long division per step                                                 *)
RECURSIVE FractionBits(_, _, _)
FractionBits(r, b, k) ==
  IF k = 0 THEN <<>>
  ELSE IntToBits((r * LimbBase) \div b, LimbBits)
         \o FractionBits((r * LimbBase) % b, b, k - 1)

RECURSIVE FractionRest(_, _, _)
FractionRest(r, b, k) ==
  IF k = 0 THEN r
  ELSE FractionRest((r * LimbBase) % b, b, k - 1)

(* enough fraction limbs for Precision bits after the leading zeros of any  *)
(* quotient the program forms                                               *)
FractionLimbs == (2 * Precision) \div LimbBits

(* a / b for ints a >= 0, 0 < b < 2^17: true division, correctly rounded;   *)
(* also the value of a decimal literal a/b such as 0.1                      *)
FDiv(a, b) ==
  LET q == a \div b
      r == a % b
  IN RoundNearestEven(1,
        IntToBits(q, BitLength(q)) \o FractionBits(r, b, FractionLimbs),
        0 - FractionLimbs * LimbBits,
        FractionRest(r, b, FractionLimbs) # 0)

RECURSIVE Limbs(_)
Limbs(bits) ==
  IF Len(bits) <= LimbBits THEN <<BitsToInt(bits)>>
  ELSE <<BitsToInt(SubSeq(bits, Len(bits) - LimbBits + 1, Len(bits)))>>
         \o Limbs(SubSeq(bits, 1, Len(bits) - LimbBits))

RECURSIVE SumProducts(_, _, _, _)
SumProducts(a, b, k, i) ==
  IF i > Len(a) THEN 0
  ELSE (IF k - i + 1 >= 1 /\ k - i + 1 <= Len(b) THEN a[i] * b[k - i + 1] ELSE 0)
         + SumProducts(a, b, k, i + 1)

RECURSIVE CarryBits(_, _, _, _)
CarryBits(a, b, k, c) ==
  IF k > Len(a) + Len(b) THEN <<>>
  ELSE LET v == SumProducts(a, b, k, 1) + c
       IN CarryBits(a, b, k + 1, v \div LimbBase) \o IntToBits(v % LimbBase, LimbBits)

(* the exact product of two significands, as bits *)
BigMul(x, y) == CarryBits(Limbs(x), Limbs(y), 1, 0)

(* x * y for floats *)
FMul(x, y) ==
  IF x.m = <<>> \/ y.m = <<>> THEN FZero
  ELSE RoundNearestEven(x.sign * y.sign, BigMul(x.m, y.m), x.e + y.e, FALSE)

(* x ** 2: pow(x, 2.0), whose result is the correctly rounded square *)
FSquare(x) == FMul(x, x)

BitsGreater(a, b) ==
  \E j \in 1..Len(a) : a[j] > b[j] /\ \A k \in 1..(j - 1) : a[k] = b[k]

(* x > y for floats x >= 0, y >= 0 *)
FGreater(x, y) ==
  IF x.m = <<>> THEN FALSE
  ELSE IF y.m = <<>> THEN TRUE
  ELSE IF x.e # y.e THEN x.e > y.e
  ELSE BitsGreater(x.m, y.m)

(* int(x): truncation toward zero, for |x| < 2^31 *)
Trunc(x) ==
  IF x.m = <<>> \/ Precision + x.e <= 0 THEN 0
  ELSE x.sign * BitsToInt(SubSeq(x.m, 1, Precision + x.e))

----------------------------------------------------------------------------
(* Characters.  A str is a sequence of one-character strings.  The four     *)
(* alphabets the generator draws from are two characters each of            *)
(* string.ascii_uppercase, ascii_lowercase, digits and punctuation.         *)

ascii_uppercase == <<"A", "B">>

ascii_lowercase == <<"a", "b">>

digits == <<"0", "1">>

punctuation == <<"!", "-">>

Range(seq) == {seq[j] : j \in DOMAIN seq}

(* str.isupper / islower / isdigit hold of more characters than the ascii   *)
(* alphabets the generator draws from; " " is in none of the four classes.  *)
UpperLetters == <<"A", "B", "C", "D", "E">>

LowerLetters == <<"a", "b", "c", "d", "e">>

DecimalDigits == <<"0", "1", "2", "3">>

OtherChars == <<" ">>

isupper(c) == c \in Range(UpperLetters)

islower(c) == c \in Range(LowerLetters)

isdigit(c) == c \in Range(DecimalDigits)

Lemah == <<"L", "e", "m", "a", "h">>

Sedang == <<"S", "e", "d", "a", "n", "g">>

Kuat == <<"K", "u", "a", "t">>

----------------------------------------------------------------------------
(* _analyze_password *)

(* sum(1 for c in password if <test>), given the outcome of the test for     *)
(* each character                                                           *)
CountTrue(tests) == Cardinality({j \in DOMAIN tests : tests[j]})

InPunctuation(c) == c \in Range(punctuation)

BoolToInt(b) == IF b THEN 1 ELSE 0

(* len(password) * (unique_chars / len(password)) ** 2 *)
Entropy(password) ==
  FMul(FromInt(Len(password)),
       FSquare(FDiv(Cardinality(Range(password)), Len(password))))

ComplexityScore(d) ==
    BoolToInt(d.total_length >= 12)
  + BoolToInt(d.uppercase_count > 0)
  + BoolToInt(d.lowercase_count > 0)
  + BoolToInt(d.digit_count > 0)
  + BoolToInt(d.special_char_count > 0)
  + BoolToInt(FGreater(d.entropy, FromInt(3)))

(* a rating that asks for all six predicates before it says Kuat *)
StrengthRatingStrict(complexity_score) ==
  IF complexity_score <= 2 THEN Lemah
  ELSE IF complexity_score <= 5 THEN Sedang
  ELSE Kuat

StrengthRating(complexity_score) ==
  IF complexity_score <= 2 THEN Lemah
  ELSE IF complexity_score <= 4 THEN Sedang
  ELSE Kuat

(* The result of _analyze_password: the details dict, or the exception the  *)
(* division by len(password) raises.                                        *)
_analyze_password(password) ==
  IF Len(password) = 0 THEN [error |-> "ZeroDivisionError"]
  ELSE LET counts == [total_length       |-> Len(password),
                      uppercase_count    |-> CountTrue([j \in DOMAIN password |-> isupper(password[j])]),
                      lowercase_count    |-> CountTrue([j \in DOMAIN password |-> islower(password[j])]),
                      digit_count        |-> CountTrue([j \in DOMAIN password |-> isdigit(password[j])]),
                      special_char_count |-> CountTrue([j \in DOMAIN password |-> InPunctuation(password[j])]),
                      entropy            |-> Entropy(password)]
           score  == ComplexityScore(counts)
       IN [error              |-> "none",
           total_length       |-> counts.total_length,
           uppercase_count    |-> counts.uppercase_count,
           lowercase_count    |-> counts.lowercase_count,
           digit_count        |-> counts.digit_count,
           special_char_count |-> counts.special_char_count,
           entropy            |-> counts.entropy,
           complexity_score   |-> score,
           strength_rating    |-> StrengthRating(score)]

----------------------------------------------------------------------------
(* generate_passwords: the pure part of one loop iteration *)

Profiles == {"low", "balanced", "high"}

complexity_config ==
  [low      |-> [uppercase_ratio    |-> FDiv(1, 10),
                 lowercase_ratio    |-> FDiv(6, 10),
                 digit_ratio        |-> FDiv(2, 10),
                 special_char_ratio |-> FDiv(1, 10)],
   balanced |-> [uppercase_ratio    |-> FDiv(25, 100),
                 lowercase_ratio    |-> FDiv(25, 100),
                 digit_ratio        |-> FDiv(25, 100),
                 special_char_ratio |-> FDiv(25, 100)],
   high     |-> [uppercase_ratio    |-> FDiv(3, 10),
                 lowercase_ratio    |-> FDiv(2, 10),
                 digit_ratio        |-> FDiv(3, 10),
                 special_char_ratio |-> FDiv(2, 10)]]

(* a lookup whose default is the 'low' profile *)
LookupConfigDefaultLow(identifier) ==
  IF identifier \in DOMAIN complexity_config
  THEN complexity_config[identifier]
  ELSE complexity_config["low"]

(* complexity_config.get(complexity, complexity_config['balanced']) *)
LookupConfig(identifier) ==
  IF identifier \in DOMAIN complexity_config
  THEN complexity_config[identifier]
  ELSE complexity_config["balanced"]

(* the outcomes of secrets.randbelow(n), n > 0 *)
randbelow(n) == 0..(n - 1)

(* a draw whose bound is one too large *)
DrawnLengthsOffByOne(min_length, max_length) ==
  {r + min_length : r \in randbelow(max_length - min_length + 2)}

(* secrets.randbelow(max_length - min_length + 1) + min_length *)
DrawnLengths(min_length, max_length) ==
  {r + min_length : r \in randbelow(max_length - min_length + 1)}

(* counts whose special share is a truncated product like the other three *)
QuotaSpecialByRatio(length, config) ==
  [uppercase_count    |-> Trunc(FMul(FromInt(length), config.uppercase_ratio)),
   lowercase_count    |-> Trunc(FMul(FromInt(length), config.lowercase_ratio)),
   digit_count        |-> Trunc(FMul(FromInt(length), config.digit_ratio)),
   special_char_count |-> Trunc(FMul(FromInt(length), config.special_char_ratio))]

(* the four character counts for a drawn length *)
Quota(length, config) ==
  LET uppercase_count == Trunc(FMul(FromInt(length), config.uppercase_ratio))
      lowercase_count == Trunc(FMul(FromInt(length), config.lowercase_ratio))
      digit_count     == Trunc(FMul(FromInt(length), config.digit_ratio))
  IN [uppercase_count    |-> uppercase_count,
      lowercase_count    |-> lowercase_count,
      digit_count        |-> digit_count,
      special_char_count |-> length - (uppercase_count + lowercase_count + digit_count)]

(* [secrets.choice(alphabet) for _ in range(count)]: range of a count <= 0  *)
(* is empty                                                                 *)
Choices(alphabet, count) == [1..count -> Range(alphabet)]

(* password_chars before the shuffle *)
PasswordChars(q) ==
  {u \o l \o d \o s : u \in Choices(ascii_uppercase, q.uppercase_count),
                      l \in Choices(ascii_lowercase, q.lowercase_count),
                      d \in Choices(digits, q.digit_count),
                      s \in Choices(punctuation, q.special_char_count)}

MaxPermLen == 3

Reverse(seq) == [j \in 1..Len(seq) |-> seq[Len(seq) + 1 - j]]

(* secrets.SystemRandom().shuffle: every permutation of a list of at most   *)
(* MaxPermLen characters; of a longer list, the list as drawn and reversed. *)
Shuffles(chars) ==
  IF Len(chars) <= MaxPermLen
  THEN {[j \in 1..Len(chars) |-> chars[p[j]]] : p \in Permutations(1..Len(chars))}
  ELSE {chars, Reverse(chars)}

----------------------------------------------------------------------------
(* _save_password: salt, hash, rows *)

Printable ==
  <<" ", "!", "\"", "#", "$", "%", "&", "'", "(", ")", "*", "+", ",", "-",
    ".", "/", "0", "1", "2", "3", "4", "5", "6", "7", "8", "9", ":", ";",
    "<", "=", ">", "?", "@", "A", "B", "C", "D", "E", "F", "G", "H", "I",
    "J", "K", "L", "M", "N", "O", "P", "Q", "R", "S", "T", "U", "V", "W",
    "X", "Y", "Z", "[", "\\", "]", "^", "_", "GRAVE", "a", "b", "c", "d", "e",
    "f", "g", "h", "i", "j", "k", "l", "m", "n", "o", "p", "q", "r", "s",
    "t", "u", "v", "w", "x", "y", "z", "{", "|", "}", "~">>

(* ord(c): Printable lists the ASCII characters 32..126 in order (the grave  *)
(* accent, 96, is spelled out)                                              *)
ord(c) ==
  LET table == Printable
  IN 31 + (CHOOSE k \in DOMAIN table : table[k] = c)

(* str.encode(): the UTF-8 bytes of an ASCII string *)
encode(text) == [j \in DOMAIN text |-> ord(text[j])]

HexDigits == <<"0", "1", "2", "3", "4", "5", "6", "7",
               "8", "9", "a", "b", "c", "d", "e", "f">>

(* secrets.token_hex(nbytes): 2 * nbytes random hex digits.  Every draw is   *)
(* fresh; the k-th draw of a run is modelled by the k-th of a fixed list of *)
(* distinct values.                                                         *)
token_hex(nbytes, k) ==
  [j \in 1..(2 * nbytes) |-> HexDigits[((7 * k + 3 * j) % 16) + 1]]

RECURSIVE Compress(_, _)
Compress(h, bytes) ==
  IF bytes = <<>> THEN h
  ELSE Compress((h * 33 + bytes[1]) % 65536, Tail(bytes))

(* hashlib.sha256(bytes).hexdigest(): a deterministic digest rendered as a  *)
(* fixed number of lowercase hex digits.  SHA-256 itself is replaced by a   *)
(* 16-bit digest (four hex digits instead of 64).                           *)
sha256_hexdigest(bytes) ==
  LET h == Compress(5381, bytes)
  IN <<HexDigits[(h \div 4096) + 1], HexDigits[((h \div 256) % 16) + 1],
       HexDigits[((h \div 16) % 16) + 1], HexDigits[(h % 16) + 1]>>

(* a "hash" that is the password itself *)
PasswordHashPlain(password, salt) == password

(* hashlib.sha256((password + salt).encode()).hexdigest() *)
PasswordHash(password, salt) == sha256_hexdigest(encode(password \o salt))

RECURSIVE str(_)
(* str(n) for an int n *)
str(n) ==
  IF n < 0 THEN <<"-">> \o str(0 - n)
  ELSE IF n < 10 THEN <<HexDigits[n + 1]>>
  ELSE str(n \div 10) \o <<HexDigits[(n % 10) + 1]>>

(* f"Generated-{i+1}" *)
ItemName(i) == <<"G", "e", "n", "e", "r", "a", "t", "e", "d", "-">> \o str(i + 1)

NULL == "NULL"

generated == <<"g", "e", "n", "e", "r", "a", "t", "e", "d">>

(* the row INSERT INTO passwords writes; the columns the statement does not *)
(* name take their defaults                                                 *)
PasswordRow(id, name, hash, salt_, d) ==
  [id                 |-> id,
   name               |-> name,
   password_hash      |-> hash,
   salt               |-> salt_,
   complexity_score   |-> d.complexity_score,
   strength_rating    |-> d.strength_rating,
   total_length       |-> d.total_length,
   uppercase_count    |-> d.uppercase_count,
   lowercase_count    |-> d.lowercase_count,
   digit_count        |-> d.digit_count,
   special_char_count |-> d.special_char_count,
   entropy            |-> d.entropy,
   last_used_at       |-> NULL,
   usage_count        |-> 0,
   notes              |-> NULL,
   category           |-> NULL]

HistoryRow(id, password_id_, action) ==
  [id |-> id, password_id |-> password_id_, action |-> action]

(* the database file: the two tables and their AUTOINCREMENT counters *)
EmptyDatabase ==
  [passwords |-> <<>>, password_history |-> <<>>,
   seq_passwords |-> 0, seq_history |-> 0]

(* str(e) of the sqlite3.Error raised at each point of _save_password *)
ErrorText ==
  [connect        |-> <<"u", "n", "a", "b", "l", "e", " ", "t", "o", " ", "o", "p", "e", "n", " ", "d", "a", "t", "a", "b", "a", "s", "e", " ", "f", "i", "l", "e">>,
   insert_record  |-> <<"d", "a", "t", "a", "b", "a", "s", "e", " ", "i", "s", " ", "l", "o", "c", "k", "e", "d">>,
   insert_history |-> <<"n", "o", " ", "s", "u", "c", "h", " ", "t", "a", "b", "l", "e", ":", " ", "p", "a", "s", "s", "w", "o", "r", "d", "_", "h", "i", "s", "t", "o", "r", "y">>,
   commit         |-> <<"d", "i", "s", "k", " ", "I", "/", "O", " ", "e", "r", "r", "o", "r">>]

(* logging.info / logging.error: the level, the message template and the    *)
(* values formatted into it                                                 *)
LogInit == [level |-> "INFO", message |-> "Database vault diinisialisasi berhasil",
            args |-> <<>>]

LogSaved(name, id) ==
  [level |-> "INFO", message |-> "Password {name} disimpan dengan ID {password_id}",
   args |-> <<name, str(id)>>]

LogSaveError(e) ==
  [level |-> "ERROR", message |-> "Kesalahan menyimpan password: {e}",
   args |-> <<e>>]

----------------------------------------------------------------------------
(* State: one generate_passwords call on a constructed PasswordVaultManager *)

VARIABLES
  pc,                  \* position of the call
  num_passwords, min_length, max_length, complexity,   \* arguments
  current_config,      \* the ratios looked up for complexity
  i,                   \* loop index of generate_passwords
  length, quota,       \* drawn length and character counts of the iteration
  password,            \* the plaintext of the iteration
  details,             \* result of _analyze_password
  salt,                \* salt drawn by the last _save_password
  password_id,         \* value the last _save_password returned
  generated_passwords, \* the list generate_passwords builds and returns
  raised,              \* the exception that left the call, or "none"
  db,                  \* content of password_vault.db
  log,                 \* records emitted through logging
  fault,               \* where the last _save_password met a sqlite3.Error
  faults_left,         \* sqlite3.Errors the environment may still raise
  failed               \* loop indexes whose _save_password returned -1

vars == <<pc, num_passwords, min_length, max_length, complexity,
          current_config, i, length, quota, password, details, salt,
          password_id, generated_passwords, raised, db, log, fault,
          faults_left, failed>>

args == <<num_passwords, min_length, max_length, complexity, current_config>>

store == <<db, log, fault, faults_left, failed>>

NoDetails == [error |-> "unset"]

NoQuota == [uppercase_count |-> 0, lowercase_count |-> 0,
            digit_count |-> 0, special_char_count |-> 0]

(* the locals at the entry of the call and the vault as __init__ leaves it *)
Fresh ==
  /\ current_config = LookupConfig(complexity)
  /\ i = 0
  /\ length = 0
  /\ quota = NoQuota
  /\ password = <<>>
  /\ details = NoDetails
  /\ salt = <<>>
  /\ password_id = 0
  /\ generated_passwords = <<>>
  /\ raised = "none"
  /\ db = EmptyDatabase
  /\ log = <<LogInit>>
  /\ fault = "none"
  /\ failed = {}

----------------------------------------------------------------------------
(* Actions *)

(* one iteration up to the call of _save_password: the length, the counts,  *)
(* the characters, the shuffle, the analysis.  secrets.randbelow raises     *)
(* ValueError for a bound that is not positive; _analyze_password raises    *)
(* ZeroDivisionError for an empty password.                                 *)
Generate ==
  /\ pc = "loop"
  /\ i < num_passwords
  /\ IF max_length - min_length + 1 <= 0
     THEN /\ raised' = "ValueError"
          /\ pc' = "raised"
          /\ UNCHANGED <<length, quota, password, details>>
     ELSE /\ \E len \in DrawnLengths(min_length, max_length) :
               /\ length' = len
               /\ quota' = Quota(len, current_config)
               /\ \E chars \in PasswordChars(quota') : password' \in Shuffles(chars)
               /\ details' = _analyze_password(password')
          /\ IF details'.error = "none"
             THEN pc' = "save" /\ raised' = raised
             ELSE pc' = "raised" /\ raised' = details'.error
  /\ UNCHANGED <<args, i, salt, password_id, generated_passwords, store>>

(* cursor.execute('INSERT INTO passwords ...'): the connection's pending    *)
(* content after the statement; cursor.lastrowid is the new seq_passwords   *)
InsertPassword(pending, name, hash, salt_, d) ==
  [pending EXCEPT
     !.passwords = Append(@, PasswordRow(pending.seq_passwords + 1, name, hash, salt_, d)),
     !.seq_passwords = @ + 1]

(* cursor.execute('INSERT INTO password_history ...') *)
InsertHistoryEntry(pending, id) ==
  [pending EXCEPT
     !.password_history = Append(@, HistoryRow(pending.seq_history + 1, id, generated)),
     !.seq_history = @ + 1]

(* a connection that keeps the pending content whatever happened *)
ConnExitNoRollback(committed, pending, exception) == pending

(* leaving "with sqlite3.connect(...) as conn": the connection commits the  *)
(* pending transaction, or rolls it back when an exception leaves the block *)
ConnExit(committed, pending, exception) ==
  IF exception THEN committed ELSE pending

(* the points of _save_password at which a sqlite3.Error can be raised *)
FailurePoints == {"connect", "insert_record", "insert_history", "commit"}

(* _save_password as a whole, with a sqlite3.Error raised at point (or      *)
(* "none"): the database it leaves, the value it returns, what it logs      *)
_save_password(committed, name, password_, salt_, d, point) ==
  LET password_hash  == PasswordHash(password_, salt_)
      after_record   == InsertPassword(committed, name, password_hash, salt_, d)
      lastrowid      == after_record.seq_passwords
      after_history  == InsertHistoryEntry(after_record, lastrowid)
  IN IF point = "none"
     THEN [db      |-> ConnExit(committed, after_history, FALSE),
           returns |-> lastrowid,
           logged  |-> LogSaved(name, lastrowid)]
     ELSE [db      |-> IF point = "connect" THEN committed
                       ELSE IF point = "insert_record"
                         THEN ConnExit(committed, committed, TRUE)
                       ELSE IF point = "insert_history"
                         THEN ConnExit(committed, after_record, TRUE)
                       ELSE ConnExit(committed, after_history, TRUE),
           returns |-> -1,
           logged  |-> LogSaveError(ErrorText[point])]

(* password_id = self._save_password(name, password, details) *)
Save ==
  /\ pc = "save"
  /\ salt' = token_hex(16, i)
  /\ \E point \in FailurePoints \cup {"none"} :
       /\ point # "none" => faults_left > 0
       /\ LET result == _save_password(db, ItemName(i), password, salt', details, point)
          IN /\ db' = result.db
             /\ password_id' = result.returns
             /\ log' = Append(log, result.logged)
       /\ fault' = point
       /\ faults_left' = IF point = "none" THEN faults_left ELSE faults_left - 1
       /\ failed' = IF point = "none" THEN failed ELSE failed \cup {i}
  /\ pc' = "append"
  /\ UNCHANGED <<args, i, length, quota, password, details, generated_passwords, raised>>

(* an iteration that leaves a failed item out of the list *)
AppendItemSkipsFailed ==
  /\ pc = "append"
  /\ generated_passwords' =
       IF password_id = -1 THEN generated_passwords
       ELSE Append(generated_passwords,
                   [id       |-> password_id,
                    name     |-> ItemName(i),
                    password |-> password,
                    details  |-> details])
  /\ i' = i + 1
  /\ pc' = "loop"
  /\ UNCHANGED <<args, length, quota, password, details, salt, password_id,
                 raised, store>>

(* generated_passwords.append({...}) and the end of the iteration *)
AppendItem ==
  /\ pc = "append"
  /\ generated_passwords' = Append(generated_passwords,
                                   [id       |-> password_id,
                                    name     |-> ItemName(i),
                                    password |-> password,
                                    details  |-> details])
  /\ i' = i + 1
  /\ pc' = "loop"
  /\ UNCHANGED <<args, length, quota, password, details, salt, password_id,
                 raised, store>>

(* return generated_passwords *)
Return ==
  /\ pc = "loop"
  /\ i >= num_passwords
  /\ pc' = "returned"
  /\ UNCHANGED <<args, i, length, quota, password, details, salt, password_id,
                 generated_passwords, raised, store>>

(* _analyze_password called on its own *)
Analyze ==
  /\ pc = "analyze"
  /\ details' = _analyze_password(password)
  /\ raised' = IF details'.error = "none" THEN raised ELSE details'.error
  /\ pc' = "analyzed"
  /\ UNCHANGED <<args, i, length, quota, password, salt, password_id,
                 generated_passwords, store>>

----------------------------------------------------------------------------
(* Spec: a batch of valid requests against a store that may fail.  The      *)
(* environment raises at most MaxFaults sqlite3.Errors.                     *)

MaxPasswords == 2

MaxFaults == 1

Init ==
  /\ pc = "loop"
  /\ num_passwords \in 0..MaxPasswords
  /\ min_length = 1
  /\ max_length = 2
  /\ complexity \in Profiles
  /\ faults_left = MaxFaults
  /\ Fresh

Next ==
  \/ Generate
  \/ Save
  \/ AppendItem
  \/ Return

Spec == Init /\ [][Next]_vars

----------------------------------------------------------------------------
(* SpecCall: every combination of arguments, valid or not, against a store  *)
(* that does not fail.                                                      *)

(* the batch sizes tried: none, one, and two so that one batch can hold a   *)
(* password of each length                                                 *)
NumPasswordInputs == {0, 1, 2}

MaxLengthInput == 2

ComplexityInputs == Profiles \cup {"extreme"}

InitCall ==
  /\ pc = "loop"
  /\ num_passwords \in NumPasswordInputs
  /\ min_length \in -1..MaxLengthInput
  /\ max_length \in -1..MaxLengthInput
  /\ complexity \in ComplexityInputs
  /\ faults_left = 0
  /\ Fresh

SpecCall == InitCall /\ [][Next]_vars

----------------------------------------------------------------------------
(* SpecGen: one iteration of the generator for each target length and       *)
(* profile.                                                                 *)

MaxLength == 12

InitGen ==
  /\ pc = "loop"
  /\ num_passwords = 1
  /\ min_length \in 1..MaxLength
  /\ max_length = min_length
  /\ complexity \in Profiles
  /\ faults_left = 0
  /\ Fresh

NextGen == Generate

SpecGen == InitGen /\ [][NextGen]_vars

----------------------------------------------------------------------------
(* SpecAnalyze: the analyzer on the empty string and on strings made of the *)
(* first few characters of each class, every character repeated equally     *)
(* often.                                                                   *)

MaxRepeat == 5

Repeated(chars, distinct, times) ==
  [j \in 1..(distinct * times) |-> chars[((j - 1) \div times) + 1]]

AnalyzerInputs ==
  {Repeated(UpperLetters, u, r) \o Repeated(LowerLetters, l, r)
     \o Repeated(DecimalDigits, d, r) \o Repeated(punctuation, s, r)
     \o Repeated(OtherChars, o, r) :
     u \in 0..Len(UpperLetters), l \in 0..Len(LowerLetters),
     d \in 0..Len(DecimalDigits), s \in 0..Len(punctuation),
     o \in 0..Len(OtherChars), r \in 1..MaxRepeat}

InitAnalyze ==
  /\ pc = "analyze"
  /\ num_passwords = 0
  /\ min_length = 0
  /\ max_length = 0
  /\ complexity = "balanced"
  /\ faults_left = 0
  /\ current_config = LookupConfig(complexity)
  /\ i = 0
  /\ length = 0
  /\ quota = NoQuota
  /\ password \in AnalyzerInputs
  /\ details = NoDetails
  /\ salt = <<>>
  /\ password_id = 0
  /\ generated_passwords = <<>>
  /\ raised = "none"
  /\ db = EmptyDatabase
  /\ log = <<LogInit>>
  /\ fault = "none"
  /\ failed = {}

NextAnalyze == Analyze

SpecAnalyze == InitAnalyze /\ [][NextAnalyze]_vars

----------------------------------------------------------------------------
(* Properties of the batch and the store *)

Rows(d) == Range(d.passwords)

HistoryRows(d) == Range(d.password_history)

Items == Range(generated_passwords)

(* every plaintext generated so far *)
Plaintexts == {password} \cup {item.password : item \in Items}

TextColumns(row) == {row.name, row.password_hash, row.salt, row.strength_rating}

LoggedValues == UNION {Range(log[k].args) : k \in DOMAIN log}

(* C1: no text column of a passwords or password_history row holds a        *)
(* generated plaintext, and no value formatted into a log message is one;   *)
(* the plaintext is only in the list the call builds.                       *)
C1_NoPlaintextStoredOrLogged ==
  \A p \in Plaintexts :
    /\ \A row \in Rows(db) : p \notin TextColumns(row)
    /\ \A h \in HistoryRows(db) : h.action # p
    /\ p \notin LoggedValues

(* C1 witness: a call has returned a persisted plaintext and a failed one   *)
C1_Witness ==
  /\ pc = "returned"
  /\ \E item \in Items : item.id > 0 /\ Len(item.password) > 0
  /\ \E item \in Items : item.id = -1
  /\ \E k \in DOMAIN log : log[k].level = "ERROR"
  /\ Len(db.passwords) > 0

GeneratedEntries(d, id) ==
  {k \in DOMAIN d.password_history :
     d.password_history[k].password_id = id /\ d.password_history[k].action = generated}

(* every record has exactly one 'generated' history entry, every history    *)
(* entry has its record                                                     *)
RecordsAndHistoryPaired(d) ==
  /\ \A row \in Rows(d) : Cardinality(GeneratedEntries(d, row.id)) = 1
  /\ \A h \in HistoryRows(d) : \E row \in Rows(d) : row.id = h.password_id

(* the number of _save_password calls that have returned a record id *)
Saved == (IF pc = "append" THEN i + 1 ELSE i) - Cardinality(failed)

(* C2: the database never holds a record without its 'generated' history    *)
(* entry or a history entry without its record, and a _save_password call   *)
(* that met an error, at whatever point, has left neither: the records and  *)
(* the history entries are those of the calls that returned an id.          *)
C2_CreateIsAtomic ==
  /\ RecordsAndHistoryPaired(db)
  /\ Len(db.passwords) = Saved
  /\ Len(db.password_history) = Saved

(* C2 witness: a save failed between the two inserts, after an earlier one  *)
(* had succeeded                                                            *)
C2_Witness ==
  /\ pc = "append"
  /\ fault = "insert_history"
  /\ password_id = -1
  /\ Len(db.passwords) = 1
  /\ Len(db.password_history) = 1

Persisted(item) ==
  \E row \in Rows(db) : row.id = item.id /\ row.name = item.name

(* C3 as stated: a returned batch lists only the items whose store write    *)
(* succeeded, each of them persisted; a failed item is not among them.      *)
C3_FailedItemNotReturnedAsSuccess ==
  pc = "returned" =>
    /\ Len(generated_passwords) + Cardinality(failed) = num_passwords
    /\ \A item \in Items : Persisted(item)

(* C3 amended: the batch continues after a failed store write; the call     *)
(* returns one entry per requested password, in order; the entry of a       *)
(* failed item carries id -1 and has no record, every other entry is        *)
(* persisted under its id and name.                                         *)
C3_FailedItemReturnedWithSentinel ==
  pc = "returned" =>
    /\ Len(generated_passwords) = (IF num_passwords > 0 THEN num_passwords ELSE 0)
    /\ \A k \in DOMAIN generated_passwords :
         /\ generated_passwords[k].name = ItemName(k - 1)
         /\ (k - 1) \in failed <=> generated_passwords[k].id = -1
         /\ (k - 1) \notin failed <=> Persisted(generated_passwords[k])
    /\ Len(db.passwords) = Len(generated_passwords) - Cardinality(failed)

(* C3 witness: the first of two items failed, the second is persisted *)
C3_Witness ==
  /\ pc = "returned"
  /\ num_passwords = 2
  /\ failed = {0}
  /\ generated_passwords[1].id = -1
  /\ Persisted(generated_passwords[2])

InvalidRange == min_length > max_length \/ min_length <= 0 \/ max_length <= 0

(* C5 as stated: a call with min_length > max_length or a non-positive      *)
(* bound fails before any password is generated, analyzed or persisted.     *)
C5_InvalidRangeFails ==
  InvalidRange =>
    /\ password = <<>>
    /\ generated_passwords = <<>>
    /\ db = EmptyDatabase
    /\ pc \notin {"save", "append", "returned"}

ValidCall ==
  /\ 0 < min_length
  /\ min_length <= max_length
  /\ complexity \in Profiles

InRange(p) == min_length <= Len(p) /\ Len(p) <= max_length

(* C6: for 0 < min_length <= max_length and an enumerated profile, every    *)
(* password the call generates and returns has a length in                  *)
(* [min_length, max_length].                                                *)
C6_LengthInRange ==
  ValidCall =>
    /\ \A item \in Items : InRange(item.password)
                           /\ item.details.total_length = Len(item.password)
    /\ pc \in {"save", "append"} => InRange(password)

(* C6 witness: one returned batch holds a password of the minimum and one   *)
(* of the maximum length                                                    *)
C6_Witness ==
  /\ ValidCall
  /\ pc = "returned"
  /\ min_length < max_length
  /\ \E item \in Items : Len(item.password) = min_length
  /\ \E item \in Items : Len(item.password) = max_length

----------------------------------------------------------------------------
(* Properties of the generator *)

(* the quotas are also computed, without drawing the characters, for every  *)
(* length up to MaxQuotaLength                                              *)
MaxQuotaLength == 48

(* the ratios of each profile as exact fractions <<numerator, denominator>> *)
ExactRatios ==
  [low      |-> [uppercase |-> <<1, 10>>, lowercase |-> <<6, 10>>, digit |-> <<2, 10>>],
   balanced |-> [uppercase |-> <<25, 100>>, lowercase |-> <<25, 100>>, digit |-> <<25, 100>>],
   high     |-> [uppercase |-> <<3, 10>>, lowercase |-> <<2, 10>>, digit |-> <<3, 10>>]]

Truncated(n, ratio) == (n * ratio[1]) \div ratio[2]

(* C7: for every target length >= 1 and profile, the uppercase, lowercase   *)
(* and digit quotas are the truncated products length * ratio, the special  *)
(* quota is the non-negative remainder, the four sum to the length, and the *)
(* counts _analyze_password reports equal the quotas and sum to             *)
(* total_length.                                                            *)
C7_QuotaAndCounts ==
  /\ pc = "loop" =>
       \A n \in 1..MaxQuotaLength :
         LET q == Quota(n, current_config)
         IN /\ q.uppercase_count = Truncated(n, ExactRatios[complexity].uppercase)
            /\ q.lowercase_count = Truncated(n, ExactRatios[complexity].lowercase)
            /\ q.digit_count = Truncated(n, ExactRatios[complexity].digit)
            /\ q.special_char_count >= 0
            /\ q.uppercase_count + q.lowercase_count + q.digit_count
                 + q.special_char_count = n
  /\ pc = "save" =>
       /\ quota.uppercase_count = Truncated(length, ExactRatios[complexity].uppercase)
       /\ quota.lowercase_count = Truncated(length, ExactRatios[complexity].lowercase)
       /\ quota.digit_count = Truncated(length, ExactRatios[complexity].digit)
       /\ quota.special_char_count >= 0
       /\ quota.uppercase_count + quota.lowercase_count + quota.digit_count
            + quota.special_char_count = length
  /\ pc = "save" =>
       /\ Len(password) = length
       /\ details.error = "none"
       /\ details.total_length = length
       /\ details.uppercase_count = quota.uppercase_count
       /\ details.lowercase_count = quota.lowercase_count
       /\ details.digit_count = quota.digit_count
       /\ details.special_char_count = quota.special_char_count
       /\ details.uppercase_count + details.lowercase_count + details.digit_count
            + details.special_char_count = details.total_length

(* C7 witness: an analyzed password of a length whose products truncate     *)
C7_Witness ==
  /\ pc = "save"
  /\ complexity = "low"
  /\ length = 11
  /\ quota = [uppercase_count |-> 1, lowercase_count |-> 6,
              digit_count |-> 2, special_char_count |-> 2]
  /\ details.special_char_count = 2

(* C10: for every profile and target length >= 12 each of the four quotas   *)
(* is at least 1, so every generated password scores at least 5 and is      *)
(* rated Kuat (Strong) whatever the draws; and for every length >= 1 the    *)
(* special quota is at least 1.                                             *)
C10_LongPasswordsAreStrong ==
  /\ pc = "loop" =>
       \A n \in 1..MaxQuotaLength :
         LET q == Quota(n, current_config)
         IN /\ q.special_char_count >= 1
            /\ n >= 12 => /\ q.uppercase_count >= 1
                          /\ q.lowercase_count >= 1
                          /\ q.digit_count >= 1
  /\ pc = "save" =>
       /\ quota.special_char_count >= 1
       /\ length >= 12 =>
            /\ quota.uppercase_count >= 1
            /\ quota.lowercase_count >= 1
            /\ quota.digit_count >= 1
  /\ (pc = "save" /\ length >= 12) =>
       /\ details.complexity_score >= 5
       /\ details.strength_rating = Kuat

(* C10 witness: a 12-character password whose draws repeat so much that the *)
(* entropy predicate fails is still rated Kuat                              *)
C10_Witness ==
  /\ pc = "save"
  /\ length = 12
  /\ details.complexity_score = 5
  /\ details.strength_rating = Kuat
  /\ Cardinality(Range(password)) <= 6

----------------------------------------------------------------------------
(* Properties of the analyzer *)

Distinct(p) == Cardinality(Range(p))

(* C8 as stated: the score of a non-empty password is the number of the     *)
(* six predicates that hold, the entropy predicate being                    *)
(* distinct^2 > 3 * length; the score is in 0..6; the rating is Lemah       *)
(* (Weak) up to 2, Sedang (Medium) for 3 and 4, Kuat (Strong) from 5.       *)
C8_ScoreCountsSixPredicates ==
  (pc = "analyzed" /\ Len(password) > 0) =>
    /\ details.error = "none"
    /\ details.complexity_score =
           BoolToInt(Len(password) >= 12)
         + BoolToInt(details.uppercase_count > 0)
         + BoolToInt(details.lowercase_count > 0)
         + BoolToInt(details.digit_count > 0)
         + BoolToInt(details.special_char_count > 0)
         + BoolToInt(Distinct(password) * Distinct(password) > 3 * Len(password))
    /\ details.complexity_score \in 0..6
    /\ details.complexity_score <= 2 => details.strength_rating = Lemah
    /\ details.complexity_score \in {3, 4} => details.strength_rating = Sedang
    /\ details.complexity_score >= 5 => details.strength_rating = Kuat

(* C9 as stated: analyzing the empty string fails with the dedicated        *)
(* EmptyPasswordError and yields no metrics, and no other input fails.      *)
C9_EmptyPasswordError ==
  pc = "analyzed" =>
    /\ password = <<>> => details = [error |-> "EmptyPasswordError"]
    /\ password # <<>> => details.error = "none"

====
